---- MODULE Spec2Model ----
(***************************************************************************)
(* Session lifecycle of vscode-test-web (src/src/index.ts): runTests and   *)
(* open start a server, open a Playwright browser context on it and tear   *)
(* both down on codeAutomationExit, on the last page closing, on the       *)
(* context closing, or on dispose().                                       *)
(*                                                                         *)
(* One session is modelled.  pc is the await the session's async function  *)
(* is suspended at; the synchronous code between two awaits is part of the *)
(* action that resumes the first.  The browser, the pages and the server   *)
(* are the environment: they complete or fail the awaited calls and emit   *)
(* the 'page' and 'close' events the code listens to.                      *)
(***************************************************************************)
EXTENDS Integers, Sequences, FiniteSets, TLC

VARIABLES
    mode,              \* "runTests" | "open": which entry point runs the session
    options,           \* the Options the caller passed (the fields the lifecycle reads)
    config,            \* the IConfig built for runServer, NoConfig before it is built
    pc,                \* the await the session function is suspended at, or its end
    failedStep,        \* the startup step that threw, "none" if none did
    server,            \* "none" | "listening" | "closed"
    serverCloseLog,    \* who called server.close(), in call order
    browser,           \* "none" | "open" | "closing" | "closed"
    browserCloseLog,   \* who called browser.close(), and openPages at that call
    launchAttempts,    \* calls of playwright[browserType].launch
    contextClose,      \* context.once('close', ...): "none" | "armed" | "fired"
    pageListener,      \* context.on('page', ...) is registered
    openPages,         \* the counter `let openPages` of openBrowser
    pages,             \* pages of the context that are really open
    zeroReached,       \* a page 'close' event has brought openPages to 0
    grant,             \* context.grantPermissions: "none" | "pending" | "granted" | "failed"
    navigated,         \* page.goto(endpoint) has loaded the page
    jsDebugReady,      \* '__jsDebugIsReady' in globalThis of the page
    logInstalled,      \* exposeFunction('codeAutomationLog') has completed
    exitInstalled,     \* exposeFunction('codeAutomationExit') has completed
    promise,           \* the promise runTests returns: [state, reason]
    handlers,          \* the runs of the codeAutomationExit callback: [code, st]
    errorLog,          \* console.error calls of the exit handler
    logForwarded,      \* a codeAutomationLog call reached console[type]
    droppedCalls,      \* the page called a bridge function that was not installed
    disposeCalls,      \* calls of dispose() on the handle open returned
    closeFailed,       \* a browser.close() has rejected
    unhandled          \* a rejection nobody awaits or catches has happened

vars == <<mode, options, config, pc, failedStep, server, serverCloseLog, browser,
          browserCloseLog, launchAttempts, contextClose, pageListener, openPages,
          pages, zeroReached, grant, navigated, jsDebugReady, logInstalled,
          exitInstalled, promise, handlers, errorLog, logForwarded, droppedCalls,
          disposeCalls, closeFailed, unhandled>>

(***************************************************************************)
(* Bounds of the model.                                                    *)
(***************************************************************************)
MaxPages == 2
MaxExitCalls == 2
MaxDispose == 2

\* the exit codes the page passes to codeAutomationExit
ExitCodes == {0, 1, 2}

Modes == {"runTests", "open"}

\* type BrowserType = 'chromium' | 'firefox' | 'webkit'
BrowserTypes == {"chromium", "firefox", "webkit"}

\* what --browserType can be on the command line, or browserType in a call
\* from JavaScript, where the type is not enforced
RawEngines == {"undefined", "chromium", "edge"}

\* valdiateBrowserType of the command line: the default for undefined, the
\* name itself if it is one of the three, otherwise help and process.exit(-1)
ValdiateBrowserType(raw) ==
    IF raw = "undefined" THEN "chromium"
    ELSE IF raw \in BrowserTypes THEN raw
    ELSE "exit"

\* browserType as runTests and open receive it: validated by cliMain, or as
\* a caller of the exported functions passes it
EngineInputs ==
    ({ValdiateBrowserType(raw) : raw \in RawEngines} \ {"exit"}) \cup RawEngines

\* Options.hideServerLog: not set, or a boolean (written as a string)
HideServerLogInputs == {"undefined", "true", "false"}

\* Options of every shape the functions read.  extensionTestsPath is TRUE
\* when a path is given; runTests requires one.
AllOptions(m) ==
    [waitForDebugger : BOOLEAN, permissions : BOOLEAN, browserType : EngineInputs,
     hideServerLog : HideServerLogInputs,
     extensionTestsPath : IF m = "runTests" THEN {TRUE} ELSE BOOLEAN]

\* Options of the lifecycle: the fields that change the startup sequence
\* vary; hideServerLog, which only the server reads, is left unset
OptionSet(m) ==
    {o \in AllOptions(m) : o.hideServerLog = "undefined" /\ o.extensionTestsPath = (m = "runTests")}

\* `hideServerLog: options.hideServerLog ?? true` (144, 196)
HideServerLog(o) == IF o.hideServerLog = "undefined" THEN "true" ELSE o.hideServerLog

\* no IConfig yet
NoConfig == [hideServerLog |-> "none", extensionTestsPath |-> FALSE]

\* the IConfig literal of runTests and open: the field the options default
BuildConfig(o) == [hideServerLog |-> HideServerLog(o), extensionTestsPath |-> o.extensionTestsPath]

(***************************************************************************)
(* The order of the awaits.  runTests: getBuild (141), runServer (151),    *)
(* then inside the promise executor openBrowser (156: launch 232,          *)
(* newContext 233, newPage 251, waitForFunction 253, setViewportSize 262,  *)
(* goto 264), exposeFunction log (158), exposeFunction exit (162), and the *)
(* executor ends with the promise pending.  open: the same up to goto, and *)
(* then the handle is returned.                                            *)
(***************************************************************************)
\* the browser launched before the server is started
RunTestsOrderLaunchFirst ==
    <<"getBuild", "launch", "runServer", "newContext", "newPage", "waitDebug",
      "viewport", "goto", "exposeLog", "exposeExit", "waiting">>

RunTestsOrder ==
    <<"getBuild", "runServer", "launch", "newContext", "newPage", "waitDebug",
      "viewport", "goto", "exposeLog", "exposeExit", "waiting">>

OpenOrder ==
    <<"getBuild", "runServer", "launch", "newContext", "newPage", "waitDebug",
      "viewport", "goto", "returned">>

Order(m) == IF m = "runTests" THEN RunTestsOrder ELSE OpenOrder

IndexOf(seq, x) == CHOOSE i \in 1..Len(seq) : seq[i] = x

\* waitForFunction never awaited, whatever waitForDebugger is
SuccSkipsWait(m, o, step) ==
    LET ord == Order(m)
        nxt == ord[IndexOf(ord, step) + 1]
    IN  IF nxt = "waitDebug" THEN ord[IndexOf(ord, step) + 2] ELSE nxt

\* the await that follows `step`; waitForFunction is skipped without waitForDebugger
Succ(m, o, step) ==
    LET ord == Order(m)
        nxt == ord[IndexOf(ord, step) + 1]
    IN  IF nxt = "waitDebug" /\ ~o.waitForDebugger
        THEN ord[IndexOf(ord, step) + 2]
        ELSE nxt

\* every step awaited outside the promise executor
InExecutorNever(m, step) == FALSE

\* The steps that run inside `new Promise(async (s, e) => ...)` of runTests
InExecutor(m, step) ==
    m = "runTests" /\ IndexOf(Order(m), step) > IndexOf(Order(m), "runServer")

\* Where a throwing step leaves the session: a throw inside the async executor
\* rejects the executor's own promise, which nobody holds, and the promise
\* runTests returned stays pending; elsewhere the async function rejects.
ThrowTarget(m, step) == IF InExecutor(m, step) THEN "hung" ELSE "rejected"

Pending == [state |-> "pending", reason |-> "none"]

\* new Error('Test failed'): an Error with a message and nothing else
TestFailedError == [message |-> "Test failed"]

\* the error of a startup step, as the caller sees it
StepError(step) == [message |-> step]

\* the exit code ignored: s() whatever the code
ExitOutcomeIgnoresCode(code) == [state |-> "fulfilled", reason |-> "none"]

\* lines 169-173 of the exit handler: s() for 0, e(new Error('Test failed')) otherwise
ExitOutcome(code) ==
    IF code = 0
    THEN [state |-> "fulfilled", reason |-> "none"]
    ELSE [state |-> "rejected", reason |-> TestFailedError]

\* s / e of a promise: the first call settles it, the later ones do nothing
Settle(p, outcome) == IF p.state = "pending" THEN outcome ELSE p

\* server.close(): recorded per call; the server ends closed
ServerCloseEntry(by) == by

\* browser.close() called by `by`: recorded per call, with the counter at the call
BrowserCloseEntry(by, n) == [by |-> by, openPages |-> n]

\* browser.close() on a browser: an open one starts closing
CloseIssued(b) == IF b = "open" THEN "closing" ELSE b

\* browser.close() called without await: the callback runs straight on
ExitHandlerStartNoAwait(code) == [code |-> code, st |-> "closeResolved"]

\* the codeAutomationExit callback up to `await context.browser()?.close()`
\* (162-164): the run is suspended until the close has resolved or rejected
ExitHandlerStart(code) == [code |-> code, st |-> "awaitClose"]

\* the 'page' callback without its count
PageOpenedNotCounted(n) == n

\* the 'page' callback of the context (240-241): openPages++
PageOpened(n) == n + 1

\* the test made before the decrement took effect: off by one
ShouldAutoCloseOffByOne(n) == n <= 1

\* page.once('close') of the page listener: the test `openPages === 0`
ShouldAutoClose(n) == n = 0

Init ==
    /\ mode \in Modes
    /\ options \in OptionSet(mode)
    /\ config = NoConfig
    /\ pc = "getBuild"
    /\ failedStep = "none"
    /\ server = "none"
    /\ serverCloseLog = <<>>
    /\ browser = "none"
    /\ browserCloseLog = <<>>
    /\ launchAttempts = 0
    /\ contextClose = "none"
    /\ pageListener = FALSE
    /\ openPages = 0
    /\ pages = 0
    /\ zeroReached = FALSE
    /\ grant = "none"
    /\ navigated = FALSE
    /\ jsDebugReady = FALSE
    /\ logInstalled = FALSE
    /\ exitInstalled = FALSE
    /\ promise = Pending
    /\ handlers = <<>>
    /\ errorLog = 0
    /\ logForwarded = FALSE
    /\ droppedCalls = FALSE
    /\ disposeCalls = 0
    /\ closeFailed = FALSE
    /\ unhandled = FALSE


(***************************************************************************)
(* Startup.  Every awaited call either completes or throws.  A call on the *)
(* browser, the context or the page completes only while the browser is    *)
(* open (and, for a page call, while a page is).                           *)
(***************************************************************************)

\* `step` throws: the async function (or the executor) ends there
Throw(step) ==
    /\ failedStep' = step
    /\ pc' = ThrowTarget(mode, step)
    /\ promise' = IF InExecutor(mode, step)
                  THEN promise
                  ELSE Settle(promise, [state |-> "rejected", reason |-> StepError(step)])
    /\ unhandled' = (unhandled \/ InExecutor(mode, step))

\* `step` completes and the function runs on to its next await
Advance(step) ==
    /\ pc' = Succ(mode, options, step)
    /\ UNCHANGED <<failedStep, unhandled>>

\* `build: await getBuild(options)` inside the config literal: when it
\* completes the IConfig is built (138-146, 190-198)
GetBuild ==
    /\ pc = "getBuild"
    /\ \/ Advance("getBuild") /\ config' = BuildConfig(options) /\ UNCHANGED promise
       \/ Throw("getBuild") /\ UNCHANGED config
    /\ UNCHANGED <<mode, options, server, serverCloseLog, browser, browserCloseLog,
                   launchAttempts, contextClose, pageListener, openPages, pages,
                   zeroReached, grant, navigated, jsDebugReady, logInstalled,
                   exitInstalled, handlers, errorLog, logForwarded, droppedCalls,
                   disposeCalls, closeFailed>>

\* await runServer(host, port, config)
RunServer ==
    /\ pc = "runServer"
    /\ \/ Advance("runServer") /\ server' = "listening" /\ UNCHANGED promise
       \/ Throw("runServer") /\ UNCHANGED server
    /\ UNCHANGED <<mode, options, config, serverCloseLog, browser, browserCloseLog,
                   launchAttempts, contextClose, pageListener, openPages, pages,
                   zeroReached, grant, navigated, jsDebugReady, logInstalled,
                   exitInstalled, handlers, errorLog, logForwarded, droppedCalls,
                   disposeCalls, closeFailed>>

\* await playwright[options.browserType].launch(...): playwright has the
\* three engines; for any other name playwright[name] is undefined and the
\* call throws a TypeError
Launch ==
    /\ pc = "launch"
    /\ launchAttempts' = launchAttempts + 1
    /\ \/ /\ options.browserType \in BrowserTypes
          /\ Advance("launch") /\ browser' = "open" /\ UNCHANGED promise
       \/ Throw("launch") /\ UNCHANGED browser
    /\ UNCHANGED <<mode, options, config, server, serverCloseLog, browserCloseLog,
                   contextClose, pageListener, openPages, pages, zeroReached, grant,
                   navigated, jsDebugReady, logInstalled, exitInstalled, handlers,
                   errorLog, logForwarded, droppedCalls, disposeCalls, closeFailed>>

\* await browser.newContext(); then, without awaiting, grantPermissions is
\* called when permissions are given, the 'page' listener is registered and
\* context.newPage() is called (a new context has no page yet)
NewContext ==
    /\ pc = "newContext"
    /\ \/ /\ browser = "open"
          /\ Advance("newContext")
          /\ grant' = IF options.permissions THEN "pending" ELSE "none"
          /\ pageListener' = TRUE
          /\ UNCHANGED promise
       \/ Throw("newContext") /\ UNCHANGED <<grant, pageListener>>
    /\ UNCHANGED <<mode, options, config, server, serverCloseLog, browser, browserCloseLog,
                   launchAttempts, contextClose, openPages, pages, zeroReached,
                   navigated, jsDebugReady, logInstalled, exitInstalled, handlers,
                   errorLog, logForwarded, droppedCalls, disposeCalls, closeFailed>>

\* await context.newPage(): the context emits 'page' and the listener counts it
NewPage ==
    /\ pc = "newPage"
    /\ \/ /\ browser = "open"
          /\ Advance("newPage")
          /\ pages' = pages + 1
          /\ openPages' = IF pageListener THEN PageOpened(openPages) ELSE openPages
          /\ UNCHANGED promise
       \/ Throw("newPage") /\ UNCHANGED <<pages, openPages>>
    /\ UNCHANGED <<mode, options, config, server, serverCloseLog, browser, browserCloseLog,
                   launchAttempts, contextClose, pageListener, zeroReached, grant,
                   navigated, jsDebugReady, logInstalled, exitInstalled, handlers,
                   errorLog, logForwarded, droppedCalls, disposeCalls, closeFailed>>

\* await page.waitForFunction(() => '__jsDebugIsReady' in globalThis)
WaitDebug ==
    /\ pc = "waitDebug"
    /\ \/ /\ browser = "open" /\ pages >= 1 /\ jsDebugReady
          /\ Advance("waitDebug")
          /\ UNCHANGED promise
       \/ Throw("waitDebug")
    /\ UNCHANGED <<mode, options, config, server, serverCloseLog, browser, browserCloseLog,
                   launchAttempts, contextClose, pageListener, openPages, pages,
                   zeroReached, grant, navigated, jsDebugReady, logInstalled,
                   exitInstalled, handlers, errorLog, logForwarded, droppedCalls,
                   disposeCalls, closeFailed>>

\* await page.setViewportSize({ width, height })
Viewport ==
    /\ pc = "viewport"
    /\ \/ /\ browser = "open" /\ pages >= 1
          /\ Advance("viewport")
          /\ UNCHANGED promise
       \/ Throw("viewport")
    /\ UNCHANGED <<mode, options, config, server, serverCloseLog, browser, browserCloseLog,
                   launchAttempts, contextClose, pageListener, openPages, pages,
                   zeroReached, grant, navigated, jsDebugReady, logInstalled,
                   exitInstalled, handlers, errorLog, logForwarded, droppedCalls,
                   disposeCalls, closeFailed>>

\* await page.goto(endpoint); openBrowser returns the context and the caller
\* registers context.once('close', () => server.close()); open then returns
\* its handle, runTests goes on to install the bridge
Goto ==
    /\ pc = "goto"
    /\ \/ /\ browser = "open" /\ pages >= 1
          /\ Advance("goto")
          /\ navigated' = TRUE
          /\ contextClose' = "armed"
          /\ promise' = IF Succ(mode, options, "goto") = "returned"
                        THEN Settle(promise, [state |-> "fulfilled", reason |-> "handle"])
                        ELSE promise
       \/ Throw("goto") /\ UNCHANGED <<navigated, contextClose>>
    /\ UNCHANGED <<mode, options, config, server, serverCloseLog, browser, browserCloseLog,
                   launchAttempts, pageListener, openPages, pages, zeroReached, grant,
                   jsDebugReady, logInstalled, exitInstalled, handlers, errorLog,
                   logForwarded, droppedCalls, disposeCalls, closeFailed>>

\* await context.exposeFunction('codeAutomationLog', ...)
ExposeLog ==
    /\ pc = "exposeLog"
    /\ \/ /\ browser = "open"
          /\ Advance("exposeLog")
          /\ logInstalled' = TRUE
          /\ UNCHANGED promise
       \/ Throw("exposeLog") /\ UNCHANGED logInstalled
    /\ UNCHANGED <<mode, options, config, server, serverCloseLog, browser, browserCloseLog,
                   launchAttempts, contextClose, pageListener, openPages, pages,
                   zeroReached, grant, navigated, jsDebugReady, exitInstalled,
                   handlers, errorLog, logForwarded, droppedCalls, disposeCalls,
                   closeFailed>>

\* await context.exposeFunction('codeAutomationExit', ...): the executor ends
\* and the promise stays pending until the page calls codeAutomationExit
ExposeExit ==
    /\ pc = "exposeExit"
    /\ \/ /\ browser = "open"
          /\ Advance("exposeExit")
          /\ exitInstalled' = TRUE
          /\ UNCHANGED promise
       \/ Throw("exposeExit") /\ UNCHANGED exitInstalled
    /\ UNCHANGED <<mode, options, config, server, serverCloseLog, browser, browserCloseLog,
                   launchAttempts, contextClose, pageListener, openPages, pages,
                   zeroReached, grant, navigated, jsDebugReady, logInstalled,
                   handlers, errorLog, logForwarded, droppedCalls, disposeCalls,
                   closeFailed>>

(***************************************************************************)
(* The environment: permissions, the debugger, pages opening and closing,  *)
(* the page calling the bridge, and browser.close() completing or failing. *)
(***************************************************************************)

\* context.grantPermissions(...) was called without await: it completes later
GrantDone ==
    /\ grant = "pending"
    /\ browser = "open"
    /\ grant' = "granted"
    /\ UNCHANGED <<mode, options, config, pc, failedStep, server, serverCloseLog, browser,
                   browserCloseLog, launchAttempts, contextClose, pageListener,
                   openPages, pages, zeroReached, navigated, jsDebugReady,
                   logInstalled, exitInstalled, promise, handlers, errorLog,
                   logForwarded, droppedCalls, disposeCalls, closeFailed, unhandled>>

\* ... or rejects, and nothing awaits or catches the rejection
GrantFail ==
    /\ grant = "pending"
    /\ grant' = "failed"
    /\ unhandled' = TRUE
    /\ UNCHANGED <<mode, options, config, pc, failedStep, server, serverCloseLog, browser,
                   browserCloseLog, launchAttempts, contextClose, pageListener,
                   openPages, pages, zeroReached, navigated, jsDebugReady,
                   logInstalled, exitInstalled, promise, handlers, errorLog,
                   logForwarded, droppedCalls, disposeCalls, closeFailed>>

\* the debugger attaches and '__jsDebugIsReady' appears in the page
DebuggerAttach ==
    /\ options.waitForDebugger
    /\ browser = "open" /\ pages >= 1
    /\ ~jsDebugReady
    /\ jsDebugReady' = TRUE
    /\ UNCHANGED <<mode, options, config, pc, failedStep, server, serverCloseLog, browser,
                   browserCloseLog, launchAttempts, contextClose, pageListener,
                   openPages, pages, zeroReached, grant, navigated, logInstalled,
                   exitInstalled, promise, handlers, errorLog, logForwarded,
                   droppedCalls, disposeCalls, closeFailed, unhandled>>

\* the loaded page opens another page: context 'page' event, openPages++
PageOpen ==
    /\ browser = "open" /\ navigated
    /\ pages >= 1 /\ pages < MaxPages
    /\ pages' = pages + 1
    /\ openPages' = IF pageListener THEN PageOpened(openPages) ELSE openPages
    /\ UNCHANGED <<mode, options, config, pc, failedStep, server, serverCloseLog, browser,
                   browserCloseLog, launchAttempts, contextClose, pageListener,
                   zeroReached, grant, navigated, jsDebugReady, logInstalled,
                   exitInstalled, promise, handlers, errorLog, logForwarded,
                   droppedCalls, disposeCalls, closeFailed, unhandled>>

\* The page listener's 'close' callbacks for k pages closing one after the
\* other, the counter being n before: openPages--, and browser.close() when
\* the test on the counter says so.  The result is [n, log, zero].
RECURSIVE ClosePages(_, _, _, _)
ClosePages(k, n, log, zero) ==
    IF k = 0
    THEN [n |-> n, log |-> log, zero |-> zero]
    ELSE ClosePages(k - 1, n - 1,
                    IF ShouldAutoClose(n - 1)
                    THEN Append(log, BrowserCloseEntry("listener", n - 1))
                    ELSE log,
                    zero \/ n - 1 = 0)

\* a page is closed (by the user or by itself): its 'close' callback runs
PageClose ==
    /\ browser = "open" /\ pages >= 1
    /\ LET r == IF pageListener
                THEN ClosePages(1, openPages, browserCloseLog, zeroReached)
                ELSE [n |-> openPages, log |-> browserCloseLog, zero |-> zeroReached]
       IN  /\ pages' = pages - 1
           /\ openPages' = r.n
           /\ zeroReached' = r.zero
           /\ browserCloseLog' = r.log
           /\ browser' = IF Len(r.log) > Len(browserCloseLog)
                         THEN CloseIssued(browser)
                         ELSE browser
    /\ UNCHANGED <<mode, options, config, pc, failedStep, server, serverCloseLog,
                   launchAttempts, contextClose, pageListener, grant, navigated,
                   jsDebugReady, logInstalled, exitInstalled, promise, handlers,
                   errorLog, logForwarded, droppedCalls, disposeCalls, closeFailed,
                   unhandled>>

\* the page calls window.codeAutomationLog(type, args)
PageCallsLog ==
    /\ browser = "open" /\ pages >= 1 /\ navigated
    /\ IF logInstalled
       THEN logForwarded' = TRUE /\ UNCHANGED droppedCalls
       ELSE droppedCalls' = TRUE /\ UNCHANGED logForwarded
    /\ UNCHANGED <<mode, options, config, pc, failedStep, server, serverCloseLog, browser,
                   browserCloseLog, launchAttempts, contextClose, pageListener,
                   openPages, pages, zeroReached, grant, navigated, jsDebugReady,
                   logInstalled, exitInstalled, promise, handlers, errorLog,
                   disposeCalls, closeFailed, unhandled>>

\* The page calls window.codeAutomationExit(code).  Installed: the callback
\* starts, calls context.browser()?.close() and awaits it.  Not installed:
\* the call fails in the page and the host never sees it.
PageCallsExit(code) ==
    /\ browser \in {"open", "closing"} /\ pages >= 1 /\ navigated
    /\ IF exitInstalled
       THEN /\ Len(handlers) < MaxExitCalls
            /\ handlers' = Append(handlers, ExitHandlerStart(code))
            /\ browserCloseLog' =
                   Append(browserCloseLog, BrowserCloseEntry("exit", openPages))
            /\ browser' = CloseIssued(browser)
            /\ UNCHANGED droppedCalls
       ELSE /\ droppedCalls' = TRUE
            /\ UNCHANGED <<handlers, browserCloseLog, browser>>
    /\ UNCHANGED <<mode, options, config, pc, failedStep, server, serverCloseLog,
                   launchAttempts, contextClose, pageListener, openPages, pages,
                   zeroReached, grant, navigated, jsDebugReady, logInstalled,
                   exitInstalled, promise, errorLog, logForwarded, disposeCalls,
                   closeFailed, unhandled>>

\* the handlers awaiting browser.close() learn how it ended
Resumed(hs, how) ==
    [i \in 1..Len(hs) |->
        IF hs[i].st = "awaitClose" THEN [hs[i] EXCEPT !.st = how] ELSE hs[i]]

\* browser.close() completes: every open page emits 'close', then the context
\* emits 'close' and the once-listener, if registered, calls server.close()
BrowserCloseDone ==
    /\ browser = "closing"
    /\ browser' = "closed"
    /\ LET r == IF pageListener
                THEN ClosePages(pages, openPages, browserCloseLog, zeroReached)
                ELSE [n |-> openPages, log |-> browserCloseLog, zero |-> zeroReached]
       IN  /\ pages' = 0
           /\ openPages' = r.n
           /\ zeroReached' = r.zero
           /\ browserCloseLog' = r.log
    /\ IF contextClose = "armed"
       THEN /\ contextClose' = "fired"
            /\ serverCloseLog' = Append(serverCloseLog, ServerCloseEntry("contextClose"))
            /\ server' = "closed"
       ELSE UNCHANGED <<contextClose, serverCloseLog, server>>
    /\ handlers' = Resumed(handlers, "closeResolved")
    /\ UNCHANGED <<mode, options, config, pc, failedStep, launchAttempts, pageListener,
                   grant, navigated, jsDebugReady, logInstalled, exitInstalled,
                   promise, errorLog, logForwarded, droppedCalls, disposeCalls,
                   closeFailed, unhandled>>

\* browser.close() rejects: the browser stays open; the exit handlers awaiting
\* it get the error, the page listener and dispose() did not await it
BrowserCloseFails ==
    /\ browser = "closing"
    /\ browser' = "open"
    /\ closeFailed' = TRUE
    /\ handlers' = Resumed(handlers, "closeRejected")
    /\ unhandled' = (unhandled \/ \E i \in 1..Len(browserCloseLog) :
                                      browserCloseLog[i].by \in {"listener", "dispose"})
    /\ UNCHANGED <<mode, options, config, pc, failedStep, server, serverCloseLog,
                   browserCloseLog, launchAttempts, contextClose, pageListener,
                   openPages, pages, zeroReached, grant, navigated, jsDebugReady,
                   logInstalled, exitInstalled, promise, errorLog, logForwarded,
                   droppedCalls, disposeCalls>>

(***************************************************************************)
(* The exit handler after its await, and dispose().                        *)
(***************************************************************************)

\* The codeAutomationExit callback resumes: the catch logs a rejected close,
\* then server.close() and s() or e(new Error('Test failed'))
ExitHandlerResume(i) ==
    /\ handlers[i].st \in {"closeResolved", "closeRejected"}
    /\ errorLog' = IF handlers[i].st = "closeRejected" THEN errorLog + 1 ELSE errorLog
    /\ serverCloseLog' = Append(serverCloseLog, ServerCloseEntry("exit"))
    /\ server' = "closed"
    /\ promise' = Settle(promise, ExitOutcome(handlers[i].code))
    /\ handlers' = [handlers EXCEPT ![i].st = "done"]
    /\ UNCHANGED <<mode, options, config, pc, failedStep, browser, browserCloseLog,
                   launchAttempts, contextClose, pageListener, openPages, pages,
                   zeroReached, grant, navigated, jsDebugReady, logInstalled,
                   exitInstalled, logForwarded, droppedCalls, disposeCalls,
                   closeFailed, unhandled>>

\* dispose() of the handle open returned: server.close(), then
\* context.browser()?.close(), not awaited
Dispose ==
    /\ mode = "open" /\ pc = "returned"
    /\ disposeCalls < MaxDispose
    /\ disposeCalls' = disposeCalls + 1
    /\ serverCloseLog' = Append(serverCloseLog, ServerCloseEntry("dispose"))
    /\ server' = "closed"
    /\ browserCloseLog' = Append(browserCloseLog, BrowserCloseEntry("dispose", openPages))
    /\ browser' = CloseIssued(browser)
    /\ UNCHANGED <<mode, options, config, pc, failedStep, launchAttempts, contextClose,
                   pageListener, openPages, pages, zeroReached, grant, navigated,
                   jsDebugReady, logInstalled, exitInstalled, promise, handlers,
                   errorLog, logForwarded, droppedCalls, closeFailed, unhandled>>

Next ==
    \/ GetBuild
    \/ RunServer
    \/ Launch
    \/ NewContext
    \/ NewPage
    \/ WaitDebug
    \/ Viewport
    \/ Goto
    \/ ExposeLog
    \/ ExposeExit
    \/ GrantDone
    \/ GrantFail
    \/ DebuggerAttach
    \/ PageOpen
    \/ PageClose
    \/ PageCallsLog
    \/ \E code \in ExitCodes : PageCallsExit(code)
    \/ BrowserCloseDone
    \/ BrowserCloseFails
    \/ \E i \in 1..Len(handlers) : ExitHandlerResume(i)
    \/ Dispose

Spec == Init /\ [][Next]_vars

(***************************************************************************)
(* The start of a session up to the server start, over every shape of the  *)
(* options: the configuration is built and handed to runServer.            *)
(***************************************************************************)
ConfigInit ==
    /\ mode \in Modes
    /\ options \in AllOptions(mode)
    /\ config = NoConfig
    /\ pc = "getBuild"
    /\ failedStep = "none"
    /\ server = "none"
    /\ serverCloseLog = <<>>
    /\ browser = "none"
    /\ browserCloseLog = <<>>
    /\ launchAttempts = 0
    /\ contextClose = "none"
    /\ pageListener = FALSE
    /\ openPages = 0
    /\ pages = 0
    /\ zeroReached = FALSE
    /\ grant = "none"
    /\ navigated = FALSE
    /\ jsDebugReady = FALSE
    /\ logInstalled = FALSE
    /\ exitInstalled = FALSE
    /\ promise = Pending
    /\ handlers = <<>>
    /\ errorLog = 0
    /\ logForwarded = FALSE
    /\ droppedCalls = FALSE
    /\ disposeCalls = 0
    /\ closeFailed = FALSE
    /\ unhandled = FALSE

ConfigNext ==
    \/ GetBuild
    \/ RunServer

ConfigSpec == ConfigInit /\ [][ConfigNext]_vars

(***************************************************************************)
(* Properties.                                                             *)
(***************************************************************************)

\* the calls of browser.close() issued by `by`
BrowserClosesBy(by) == {i \in 1..Len(browserCloseLog) : browserCloseLog[i].by = by}

\* the calls of server.close() issued by `by`
ServerClosesBy(by) == {i \in 1..Len(serverCloseLog) : serverCloseLog[i] = by}

\* the runs of the exit handler that have reached s() or e()
HandlersDone == {i \in 1..Len(handlers) : handlers[i].st = "done"}

\* the session is over for the caller: the exit handler has settled the
\* promise of runTests, or dispose() has returned
SessionOver ==
    \/ mode = "runTests" /\ HandlersDone # {}
    \/ mode = "open" /\ disposeCalls > 0

\* C1: once the completion promise has settled or dispose() has returned, the
\* server and the browser are both closed, and each was closed exactly once
\* over the whole session, counting every trigger.
C1_ClosedExactlyOnce ==
    SessionOver =>
        /\ server = "closed"
        /\ browser = "closed"
        /\ Len(serverCloseLog) = 1
        /\ Len(browserCloseLog) = 1

\* C2: the first codeAutomationExit call decides the promise of runTests:
\* code 0 fulfils it, a code n # 0 rejects it with a failure that carries n.
C2_OutcomeCarriesCode ==
    (Len(handlers) >= 1 /\ handlers[1].st = "done") =>
        IF handlers[1].code = 0
        THEN promise.state = "fulfilled"
        ELSE /\ promise.state = "rejected"
             /\ "code" \in DOMAIN promise.reason
             /\ promise.reason.code = handlers[1].code

\* C3: only the first codeAutomationExit call has any effect on the session:
\* no later call closes the browser or the server again or reaches s()/e().
C3_OnlyFirstExitHasEffect ==
    /\ Cardinality(BrowserClosesBy("exit")) <= 1
    /\ Cardinality(ServerClosesBy("exit")) <= 1
    /\ Cardinality(HandlersDone) <= 1

\* C4: both bridge functions are installed before the first page is navigated
\* to the endpoint, so the page never calls one that is not installed.
C4_BridgeBeforeNavigation ==
    /\ navigated => (logInstalled /\ exitInstalled)
    /\ ~droppedCalls

\* C5: when starting the server fails, no browser launch is ever attempted
\* in the session and the caller has the error.
C5_NoLaunchAfterServerFailure ==
    failedStep = "runServer" =>
        /\ launchAttempts = 0
        /\ browser = "none"
        /\ pc = "rejected"
        /\ promise = [state |-> "rejected", reason |-> StepError("runServer")]

\* C5 witness: the server failed to start, in a runTests session
C5_Witness == failedStep = "runServer" /\ mode = "runTests" /\ server = "none"

\* C6: when a startup step after the server start fails, the server is
\* closed and no browser is left open once the error has propagated.
C6_CleanupOnStartupFailure ==
    failedStep \notin {"none", "getBuild", "runServer"} =>
        /\ server = "closed"
        /\ browser \in {"none", "closed"}

\* C7: in runTests a failing startup step rejects the returned promise.
C7_StartupFailureRejects ==
    (mode = "runTests" /\ failedStep # "none") => promise.state = "rejected"

\* no exit call has reached the host and dispose() has not been called
NoTeardown == handlers = <<>> /\ disposeCalls = 0

\* C8: the page listener closes the browser only with the counter at zero;
\* without exit call or dispose(), browser.close() has been called exactly
\* when the counter has reached zero, the browser is closing or closed only
\* then, and it is then unless that close was rejected.
C8_AutoCloseIffZero ==
    /\ \A i \in BrowserClosesBy("listener") : browserCloseLog[i].openPages = 0
    /\ NoTeardown =>
           /\ (browserCloseLog # <<>>) <=> zeroReached
           /\ browser \in {"closing", "closed"} => zeroReached
           /\ (zeroReached /\ ~closeFailed) => browser \in {"closing", "closed"}

\* C8 witness: a second page was opened and both were closed, and the
\* browser has closed without exit call or dispose()
C8_Witness ==
    /\ NoTeardown
    /\ navigated
    /\ zeroReached
    /\ browser = "closed"
    /\ Len(browserCloseLog) = 1

\* C9: when browser.close() rejects in the exit handler, the handler still
\* ends normally: the error is logged, server.close() is called and the
\* promise is settled by the exit code (if it was still pending).
C9_CloseErrorStaysInHandler ==
    [][\A i \in 1..Len(handlers) :
          (handlers[i].st = "closeRejected" /\ handlers'[i].st = "done") =>
              /\ errorLog' = errorLog + 1
              /\ server' = "closed"
              /\ serverCloseLog' = Append(serverCloseLog, "exit")
              /\ unhandled' = unhandled
              /\ promise'.state # "pending"
              /\ promise.state = "pending" =>
                     promise'.state = IF handlers[i].code = 0
                                      THEN "fulfilled"
                                      ELSE "rejected"]_vars

\* C9 witness: an exit handler has ended after a rejected close; the browser
\* is still open, the server is closed and the promise is rejected
C9_Witness ==
    /\ errorLog >= 1
    /\ HandlersDone # {}
    /\ browser = "open"
    /\ server = "closed"
    /\ promise.state = "rejected"

\* C10: dispose() is idempotent: only its first call calls close on the
\* server and on the browser, a later call issues no further close.
C10_DisposeIdempotent ==
    disposeCalls >= 1 =>
        /\ Cardinality(ServerClosesBy("dispose")) = 1
        /\ Cardinality(BrowserClosesBy("dispose")) = 1

\* C11: in a session of open, after the user has closed the only page and the
\* browser has closed by itself, a dispose() call performs no close on the
\* server or on the browser.
C11_DisposeAfterAutoCloseIsNoOp ==
    [][(/\ disposeCalls' > disposeCalls
        /\ BrowserClosesBy("listener") # {}
        /\ browser = "closed"
        /\ server = "closed")
       => (serverCloseLog' = serverCloseLog /\ browserCloseLog' = browserCloseLog)]_vars

\* C12: with hideServerLog not set the configuration gets hideServerLog =
\* TRUE when an extensionTestsPath is given and FALSE otherwise; a given
\* value is passed through.
C12_HideServerLogDefault ==
    config # NoConfig =>
        config.hideServerLog =
            IF options.hideServerLog # "undefined" THEN options.hideServerLog
            ELSE IF options.extensionTestsPath THEN "true"
            ELSE "false"

\* the session function has ended or waits for the page for good
Terminal == pc \in {"hung", "rejected", "waiting", "returned"}

\* C13: an exit call and the 'close' of the last page converge on one
\* guarded close: with one exit call browser.close() is executed at most
\* once, and the handler ends with the server closed and the promise
\* settled by the exit code.
C13_SingleGuardedClose ==
    Len(handlers) = 1 =>
        /\ Len(browserCloseLog) <= 1
        /\ handlers[1].st = "done" =>
               /\ server = "closed"
               /\ promise.state = IF handlers[1].code = 0 THEN "fulfilled" ELSE "rejected"

\* C14: whenever the browser has closed, for whatever reason and at whatever
\* point of the session, the server is closed too once the session function
\* has ended: no closed browser with the server left listening.
C14_NoOrphanServer ==
    (browser = "closed" /\ Terminal) => server = "closed"

\* C15: when the promise of runTests is settled by an exit call, the handler
\* that settled it has finished its attempt to close the browser (the
\* browser is closed, or the close was rejected) and server.close() has
\* been called: the server is closed.
C15_ClosedBeforeSettled ==
    (mode = "runTests" /\ promise.state # "pending"
                       /\ failedStep \notin {"getBuild", "runServer"}) =>
        /\ BrowserClosesBy("exit") # {}
        /\ browser = "closed" \/ closeFailed
        /\ ServerClosesBy("exit") # {}
        /\ server = "closed"

\* C15 witness: a failing test run has been reported with the browser and
\* the server closed and no close rejected
C15_Witness ==
    /\ mode = "runTests"
    /\ promise = [state |-> "rejected", reason |-> TestFailedError]
    /\ browser = "closed"
    /\ server = "closed"
    /\ ~closeFailed

\* C16: once the server has started, the promise of runTests is settled
\* only by a run of the exit handler: page and context events never settle
\* it, and without an exit call it stays pending (before that, only a
\* failing getBuild or runServer rejects it).
C16_OnlyExitSettles ==
    mode = "runTests" =>
        /\ promise.state # "pending" =>
               (HandlersDone # {} \/ failedStep \in {"getBuild", "runServer"})
        /\ (server # "none" /\ HandlersDone = {}) => promise = Pending

\* C16 witness: the last page was closed and the browser and the server have
\* closed without any exit call; the promise is pending
C16_Witness ==
    /\ mode = "runTests"
    /\ pc = "waiting"
    /\ handlers = <<>>
    /\ zeroReached
    /\ browser = "closed"
    /\ server = "closed"
    /\ promise = Pending

\* the awaits that follow waitForFunction, and the ends after them
AfterWaitDebug == {"viewport", "goto", "exposeLog", "exposeExit", "waiting", "returned"}

\* C17 as stated: with waitForDebugger the flag is awaited on the page loaded
\* from the endpoint, and startup does not complete without the flag.
C17_WaitOnLoadedPage ==
    options.waitForDebugger =>
        /\ pc = "waitDebug" => navigated
        /\ pc \in {"waiting", "returned"} => jsDebugReady

\* C17 amended: with waitForDebugger the flag is awaited before the page is
\* navigated to the endpoint: while it is awaited the page is not loaded,
\* and neither navigation nor the end of startup happens without the flag.
C17_NoNavigationBeforeDebugger ==
    options.waitForDebugger =>
        /\ pc = "waitDebug" => ~navigated
        /\ (navigated \/ pc \in AfterWaitDebug) => jsDebugReady

\* C17 witness: a session with waitForDebugger has completed startup
C17_Witness ==
    /\ options.waitForDebugger
    /\ pc \in {"waiting", "returned"}
    /\ navigated
    /\ jsDebugReady

\* C18: when permissions are requested the grant has completed before the
\* first page exists, and a failed grant fails the startup.
C18_GrantBeforeFirstPage ==
    options.permissions =>
        /\ (pages >= 1 \/ navigated) => grant = "granted"
        /\ grant = "failed" => failedStep # "none"

\* C19: an engine name other than the three is rejected with a fatal error:
\* no browser is launched for it, the caller gets the error and no server
\* is left open.
C19_UnknownEngineRejected ==
    options.browserType \notin BrowserTypes =>
        /\ browser = "none"
        /\ Terminal => (promise.state = "rejected" /\ server \in {"none", "closed"})

\* C20: the counter openPages is never negative and equals the number of
\* pages of the context that are open.
C20_CounterMatchesPages ==
    /\ openPages >= 0
    /\ openPages = pages

\* C20 witness: the first page and a page it opened are both counted
C20_Witness == pageListener /\ pages >= 2 /\ openPages >= 2

====
